---- MODULE Spec2Model ----
(***************************************************************************)
(* A model of the logo ingestion pipeline of ngn-banks-registry:          *)
(* scripts/workflow.ts (class ImageProcessor) driven by scripts/build.ts   *)
(* and scripts/ci.ts.                                                      *)
(*                                                                         *)
(* Strings of the program are sequences of one-character strings, so that  *)
(* the regular expression of extractCode, path.extname, String.includes    *)
(* and the template literals are computed and not assumed.                 *)
(***************************************************************************)
EXTENDS Integers, Sequences, FiniteSets, TLC

(***************************************************************************)
(* Values of JavaScript that are not strings.                              *)
(***************************************************************************)
Null == <<"<null>">>
Undefined == <<"<undefined>">>

\* JavaScript truthiness of a value that is a string, null or undefined.
Truthy(v) == v /= Null /\ v /= Undefined /\ v /= <<>>

\* String.prototype.includes
Includes(s, sub) ==
    \E i \in 0..(Len(s) - Len(sub)) : SubSeq(s, i + 1, i + Len(sub)) = sub

\* A value inside a template literal: undefined and null print as words.
Str(v) ==
    IF v = Undefined THEN <<"u", "n", "d", "e", "f", "i", "n", "e", "d">>
    ELSE IF v = Null THEN <<"n", "u", "l", "l">>
    ELSE v

\* String.prototype.toLowerCase on the letters the model uses.
LowerChar(c) ==
    CASE c = "P" -> "p"
      [] c = "N" -> "n"
      [] c = "G" -> "g"
      [] OTHER -> c

toLowerCase(s) == [i \in 1..Len(s) |-> LowerChar(s[i])]

\* The positions of "." in s.
DotPositions(s) == {i \in 1..Len(s) : s[i] = "."}

LastDot(s) ==
    IF DotPositions(s) = {} THEN 0
    ELSE CHOOSE i \in DotPositions(s) : \A j \in DotPositions(s) : j <= i

\* path.extname of a basename: from the last "." to the end; "" when there
\* is no ".", when the only "." is the first character, and for "..".
extname(base) ==
    LET d == LastDot(base) IN
    IF d <= 1 THEN <<>>
    ELSE IF base = <<".", ".">> THEN <<>>
    ELSE SubSeq(base, d, Len(base))

Digits == {"0", "1", "2", "3", "4", "5", "6", "7", "8", "9"}

\* parseInt never throws: it returns a number, or NaN when the string does
\* not start (after an optional sign) with a digit.  Its value is discarded
\* by extractCode; what matters there is whether it throws.
parseIntIsNaN(s) ==
    LET body == IF Len(s) > 0 /\ s[1] \in {"-", "+"} THEN Tail(s) ELSE s
    IN  ~(Len(body) > 0 /\ body[1] \in Digits)

parseIntThrows(s) == FALSE

\* imagePath.replace(/\.[^/.]+$/, ""): the match can only start at the last
\* "." and needs at least one character after it, none of them "/".
StripExtension(s) ==
    LET d == LastDot(s) IN
    IF d >= 1 /\ d < Len(s) /\ \A j \in (d + 1)..Len(s) : s[j] /= "/"
    THEN SubSeq(s, 1, d - 1)
    ELSE s

extractCode(imagePath) ==
    LET code == StripExtension(imagePath) IN
    IF parseIntThrows(code) THEN Null ELSE code


(***************************************************************************)
(* Configuration: the options the two scripts construct the processor with.*)
(***************************************************************************)
Scripts == {"build", "ci"}

defaultSupportedFormats ==
    { <<".", "j", "p", "g">>, <<".", "j", "p", "e", "g">>, <<".", "p", "n", "g">>,
      <<".", "g", "i", "f">>, <<".", "s", "v", "g">> }

\* build.ts passes 5MB, ci.ts passes 100KB.
maxFileSizeOf(scr) == IF scr = "build" THEN 5 * 1024 * 1024 ELSE 100 * 1024

minFileSize == 1024

\* build.ts always passes an r2Config object, so the S3 client exists there;
\* ci.ts passes none.
HasR2Config(scr) == scr = "build"

Cdn == <<"c", "d", "n">>

\* this.r2Config?.publicDomain
publicDomainOf(scr) == IF HasR2Config(scr) THEN Cdn ELSE Undefined

LogoPrefix == <<"l", "o", "g", "o", "/">>

DefaultImage == <<"d", "e", "f", "a", "u", "l", "t", "-", "i", "m", "a", "g", "e">>

\* `logo/${fileName}`
KeyOf(code) == LogoPrefix \o Str(code)

\* `${publicDomain}/${key}`
PublicUrl(domain, key) == Str(domain) \o <<"/">> \o key

\* `${this.r2Config?.publicDomain}/logo/default-image`
PlaceholderUrl(scr) == Str(publicDomainOf(scr)) \o <<"/">> \o LogoPrefix \o DefaultImage

mimeTypes(ext) ==
    CASE ext = <<".", "j", "p", "g">> -> <<"image/jpeg">>
      [] ext = <<".", "j", "p", "e", "g">> -> <<"image/jpeg">>
      [] ext = <<".", "p", "n", "g">> -> <<"image/png">>
      [] ext = <<".", "g", "i", "f">> -> <<"image/gif">>
      [] ext = <<".", "s", "v", "g">> -> <<"image/svg+xml">>
      [] OTHER -> <<"unknown">>

\* formatFileSize: the number (in hundredths, after toFixed(2)) and its unit.
formatFileSize(bytes) ==
    IF bytes = 0 THEN [hundredths |-> 0, unit |-> "B"]
    ELSE LET k == 1024
             i == IF bytes < k THEN 0
                  ELSE IF bytes < k * k THEN 1
                  ELSE IF bytes < k * k * k THEN 2 ELSE 3
             p == IF i = 0 THEN 1
                  ELSE IF i = 1 THEN k
                  ELSE IF i = 2 THEN k * k ELSE k * k * k
             units == <<"B", "KB", "MB", "GB">>
         IN  [hundredths |-> (2 * 100 * bytes + p) \div (2 * p), unit |-> units[i + 1]]

(***************************************************************************)
(* File Inspector: getImageInfo, for a file that fs.stat can read.         *)
(***************************************************************************)
basename(imagePath) == imagePath.name

pathJoin(directory, name) == [dir |-> directory, name |-> name]

getImageInfo(imagePath, size, scr) ==
    LET ext == toLowerCase(extname(basename(imagePath)))
    IN  [ path |-> imagePath,
          name |-> basename(imagePath),
          code |-> extractCode(basename(imagePath)),
          extension |-> ext,
          size |-> size,
          sizeFormatted |-> formatFileSize(size),
          type |-> mimeTypes(ext),
          isSupported |-> ext \in defaultSupportedFormats,
          isValidSize |-> size >= minFileSize /\ size <= maxFileSizeOf(scr) ]

(***************************************************************************)
(* Directory Scanner: getAllImageFiles over the entries of readdir.        *)
(***************************************************************************)
RECURSIVE ScanFiles(_, _)
ScanFiles(entries, directory) ==
    IF entries = <<>> THEN <<>>
    ELSE LET entry == Head(entries)
             ext == toLowerCase(extname(entry.name))
         IN  IF entry.isFile /\ ext \in defaultSupportedFormats
             THEN <<pathJoin(directory, entry.name)>> \o ScanFiles(Tail(entries), directory)
             ELSE ScanFiles(Tail(entries), directory)

RECURSIVE ScanSkipped(_)
ScanSkipped(entries) ==
    IF entries = <<>> THEN <<>>
    ELSE LET entry == Head(entries)
             ext == toLowerCase(extname(entry.name))
         IN  IF entry.isFile /\ ext \notin defaultSupportedFormats
             THEN <<[name |-> entry.name, reason |-> <<"Unsupported format", ext>>]>>
                  \o ScanSkipped(Tail(entries))
             ELSE ScanSkipped(Tail(entries))

(***************************************************************************)
(* Upload Gateway: uploadToR2.  outcome is what the environment does to     *)
(* this call: "ok", "readFile" (fs.readFile throws) or "send" (the          *)
(* PutObject request throws).                                               *)
(***************************************************************************)
UploadOutcomes == {"ok", "readFile", "send"}

\* The PutObject requests the call sends (none when unconfigured or when the
\* file cannot be read).
uploadRequests(imageInfo, scr, outcome) ==
    IF ~HasR2Config(scr) \/ outcome = "readFile" THEN <<>>
    ELSE <<[Key |-> KeyOf(imageInfo.code), ContentType |-> imageInfo.type,
            from |-> imageInfo.path]>>

uploadToR2(imageInfo, scr, outcome) ==
    IF ~HasR2Config(scr)
    THEN [kind |-> "Error", message |-> <<"R2 client not configured">>]
    ELSE IF outcome /= "ok"
    THEN [kind |-> "Error", message |-> <<"Failed to upload image to R2", outcome>>]
    ELSE [kind |-> "string",
          value |-> PublicUrl(publicDomainOf(scr), KeyOf(imageInfo.code))]

(***************************************************************************)
(* Validation & Matching Engine: processImage.                             *)
(***************************************************************************)
\* this.banks.findIndex(...): the first index that matches, 0 for -1.
MatchingIndexes(bks, code) ==
    {i \in 1..Len(bks) : bks[i].code = code \/ bks[i].nipBankCode = code}

findBankIndex(bks, code) ==
    IF MatchingIndexes(bks, code) = {} THEN 0
    ELSE CHOOSE i \in MatchingIndexes(bks, code) :
             \A j \in MatchingIndexes(bks, code) : i <= j

\* IconAlreadySet without the negation of the marker test.
IconAlreadySetInverted(bank) == Truthy(bank.icon) /\ Includes(bank.icon, DefaultImage)

\* bankMatch?.icon && !bankMatch?.icon.includes("default-image")
IconAlreadySet(bank) == Truthy(bank.icon) /\ ~Includes(bank.icon, DefaultImage)

\* Stage without the test for an icon that is already set.
StageNoIconCheck(info, bks, scr, ci) ==
    IF ~info.isSupported THEN "format"
    ELSE IF ~Truthy(info.code) THEN "code"
    ELSE IF ~info.isValidSize THEN "size"
    ELSE IF findBankIndex(bks, info.code) = 0 THEN "match"
    ELSE IF ci THEN "ci"
    ELSE "upload"

\* Stage without the CI short-circuit.
StageNoCi(info, bks, scr, ci) ==
    IF ~info.isSupported THEN "format"
    ELSE IF ~Truthy(info.code) THEN "code"
    ELSE IF ~info.isValidSize THEN "size"
    ELSE IF findBankIndex(bks, info.code) = 0 THEN "match"
    ELSE IF IconAlreadySet(bks[findBankIndex(bks, info.code)]) THEN "iconSet"
    ELSE "upload"

\* Stage with the size check ahead of the code presence check.
StageSizeFirst(info, bks, scr, ci) ==
    IF ~info.isSupported THEN "format"
    ELSE IF ~info.isValidSize THEN "size"
    ELSE IF ~Truthy(info.code) THEN "code"
    ELSE IF findBankIndex(bks, info.code) = 0 THEN "match"
    ELSE IF IconAlreadySet(bks[findBankIndex(bks, info.code)]) THEN "iconSet"
    ELSE IF ci THEN "ci"
    ELSE "upload"

\* The stage at which processImage returns.
Stage(info, bks, scr, ci) ==
    IF ~info.isSupported THEN "format"
    ELSE IF ~Truthy(info.code) THEN "code"
    ELSE IF ~info.isValidSize THEN "size"
    ELSE IF findBankIndex(bks, info.code) = 0 THEN "match"
    ELSE IF IconAlreadySet(bks[findBankIndex(bks, info.code)]) THEN "iconSet"
    ELSE IF ci THEN "ci"
    ELSE "upload"

\* infoAfter without the assignment of the canonical code.
infoAfterKeepCode(info, bks, scr, ci) == info

\* ImageInfo after the call: ImageInfo.code = bankMatch.nipBankCode.
infoAfter(info, bks, scr, ci) ==
    IF Stage(info, bks, scr, ci) \in {"iconSet", "ci", "upload"}
    THEN [info EXCEPT !.code = bks[findBankIndex(bks, info.code)].nipBankCode]
    ELSE info

\* The invocations of uploadToR2 the call makes (its argument and what it sent).
uploadCallsOf(info, bks, scr, ci, outcome) ==
    IF Stage(info, bks, scr, ci) = "upload"
    THEN <<[info |-> infoAfter(info, bks, scr, ci),
            sent |-> uploadRequests(infoAfter(info, bks, scr, ci), scr, outcome)]>>
    ELSE <<>>

\* The value processImage returns.
processImage(info, bks, scr, ci, outcome) ==
    LET stage == Stage(info, bks, scr, ci)
        bankIndex == findBankIndex(bks, info.code)
        imageUrl == uploadToR2(infoAfter(info, bks, scr, ci), scr, outcome)
    IN  CASE stage = "format" ->
               [kind |-> "ImageValidationError",
                message |-> <<"Unsupported format", info.type>>]
          [] stage = "code" ->
               [kind |-> "ImageBankMatchError",
                message |-> <<"No code found", info.name>>]
          [] stage = "size" ->
               [kind |-> "ImageValidationError",
                message |-> <<"Invalid size", info.name, info.sizeFormatted>>]
          [] stage = "match" ->
               [kind |-> "ImageBankMatchError",
                message |-> <<"No bank found", info.name>>]
          [] stage \in {"iconSet", "ci"} ->
               [kind |-> "string", value |-> bks[bankIndex].icon]
          [] OTHER ->
               IF imageUrl.kind = "Error"
               THEN [kind |-> "FailedUploadError", message |-> imageUrl.message]
               ELSE imageUrl

\* banksAfter with the assignment ahead of the test for an Error: a failed
\* upload stores its message as the icon.
banksAfterUnchecked(info, bks, scr, ci, outcome) ==
    IF Stage(info, bks, scr, ci) = "upload"
    THEN [bks EXCEPT ![findBankIndex(bks, info.code)].icon =
             IF uploadToR2(infoAfter(info, bks, scr, ci), scr, outcome).kind = "string"
             THEN uploadToR2(infoAfter(info, bks, scr, ci), scr, outcome).value
             ELSE uploadToR2(infoAfter(info, bks, scr, ci), scr, outcome).message]
    ELSE bks

\* this.banks after the call: this.banks[bankIndex].icon = imageUrl.
banksAfter(info, bks, scr, ci, outcome) ==
    IF Stage(info, bks, scr, ci) = "upload"
       /\ uploadToR2(infoAfter(info, bks, scr, ci), scr, outcome).kind = "string"
    THEN [bks EXCEPT ![findBankIndex(bks, info.code)].icon =
             uploadToR2(infoAfter(info, bks, scr, ci), scr, outcome).value]
    ELSE bks

(***************************************************************************)
(* Report Aggregator: the routing of one result in processDirectory.       *)
(***************************************************************************)
IsError(res) ==
    res.kind \in {"Error", "ImageValidationError", "ImageBankMatchError", "FailedUploadError"}

\* Route without the `continue` after the failed_upload push: the name falls
\* through to the last push onto skipped as well.
RouteFallThrough(report, info, imageResult) ==
    IF IsError(imageResult)
    THEN IF imageResult.kind = "FailedUploadError"
         THEN [report EXCEPT !.failed_upload = Append(@, info.name),
                             !.skipped = Append(@, [name |-> info.name,
                                                    reason |-> imageResult.message])]
         ELSE [report EXCEPT !.skipped =
                  Append(@, [name |-> info.name, reason |-> imageResult.message])]
    ELSE [report EXCEPT !.completed = Append(@, info.name)]

\* Route that tests the base class first: every failure lands in skipped.
RouteBaseClassFirst(report, info, imageResult) ==
    IF IsError(imageResult)
    THEN [report EXCEPT !.skipped =
             Append(@, [name |-> info.name, reason |-> imageResult.message])]
    ELSE [report EXCEPT !.completed = Append(@, info.name)]

\* Route with unshift in place of push for completed.
RouteUnshift(report, info, imageResult) ==
    IF IsError(imageResult)
    THEN IF imageResult.kind = "FailedUploadError"
         THEN [report EXCEPT !.failed_upload = Append(@, info.name)]
         ELSE [report EXCEPT !.skipped =
                  Append(@, [name |-> info.name, reason |-> imageResult.message])]
    ELSE [report EXCEPT !.completed = <<info.name>> \o @]

Route(report, info, imageResult) ==
    IF IsError(imageResult)
    THEN IF imageResult.kind = "ImageValidationError"
         THEN [report EXCEPT !.skipped =
                  Append(@, [name |-> info.name, reason |-> imageResult.message])]
         ELSE IF imageResult.kind = "FailedUploadError"
         THEN [report EXCEPT !.failed_upload = Append(@, info.name)]
         ELSE IF imageResult.kind = "ImageBankMatchError"
         THEN [report EXCEPT !.skipped =
                  Append(@, [name |-> info.name, reason |-> imageResult.message])]
         ELSE [report EXCEPT !.skipped =
                  Append(@, [name |-> info.name, reason |-> imageResult.message])]
    ELSE [report EXCEPT !.completed = Append(@, info.name)]

(***************************************************************************)
(* Cleanup Coordinator: the pieces of cleanup.                             *)
(***************************************************************************)
\* updatedBanks: the default icon for the banks that have none.
updatedBanks(bks, scr) ==
    [i \in 1..Len(bks) |->
        [bks[i] EXCEPT !.icon = IF Truthy(bks[i].icon) THEN bks[i].icon
                                 ELSE PlaceholderUrl(scr)]]

\* The content of banksFilePath after the try block of cleanup: the call of
\* fs.writeFile is commented out, so the file keeps its content.
writeBanksFile(file, bks, scr) == file

DefaultDir == "./_data/images"

OtherDir == "./logos"

\* const dirPath = resolve("./_data/images")
cleanupDirPath(directory) == DefaultDir

\* resolve(dirPath, imagePath)
unlinkPath(directory, imagePath) == pathJoin(cleanupDirPath(directory), imagePath)

\* What cleanup returns after the deletion loop.
cleanupReturn(failed, total) ==
    IF failed > 0
    THEN [kind |-> "Error", message |-> <<"Failed to delete", failed, "out of", total>>]
    ELSE [kind |-> "void"]

(***************************************************************************)
(* The inputs of a run.                                                    *)
(***************************************************************************)
MaxFiles == 2

C77 == <<"7", "7">>
C10 == <<"1", "0">>
C20 == <<"2", "0">>
C30 == <<"3", "0">>

\* The directory entries a run may find: name, kind and size in bytes.
Entries ==
    { [name |-> C77 \o <<".", "p", "n", "g">>, isFile |-> TRUE, size |-> 2048],
      [name |-> C77 \o <<".", "P", "N", "G">>, isFile |-> TRUE, size |-> 2048],
      [name |-> C10 \o <<".", "j", "p", "g">>, isFile |-> TRUE, size |-> 2048],
      [name |-> C20 \o <<".", "s", "v", "g">>, isFile |-> TRUE, size |-> 200 * 1024],
      [name |-> <<"9", "9", ".", "g", "i", "f">>, isFile |-> TRUE, size |-> 1023],
      [name |-> <<"l", "o", "g", "o", "-", "a", ".", "p", "n", "g">>,
       isFile |-> TRUE, size |-> 2048],
      [name |-> <<"5", ".", "t", "x", "t">>, isFile |-> TRUE, size |-> 2048],
      [name |-> <<"s", "u", "b">>, isFile |-> FALSE, size |-> 0] }

\* Directory listings: up to MaxFiles entries with distinct names, any order.
Listings ==
    UNION { {l \in [1..n -> Entries] : \A i, j \in 1..n : i /= j => l[i].name /= l[j].name}
            : n \in 0..MaxFiles }

RealIcon(code) == PublicUrl(Cdn, KeyOf(code))

Placeholder == PublicUrl(Cdn, KeyOf(DefaultImage))

\* The registry sources: three banks; the first is named by files through its
\* code ("10") or its nipBankCode ("20"), and the third shares the code "20".
\* A bank has no icon, the placeholder, or the icon of an earlier upload.
Registries ==
    { << [code |-> C10, nipBankCode |-> C20, name |-> "A", icon |-> a],
         [code |-> C77, nipBankCode |-> C77, name |-> "B", icon |-> b],
         [code |-> C20, nipBankCode |-> C30, name |-> "C", icon |-> RealIcon(C30)] >>
      : a \in {Undefined, RealIcon(C20)}, b \in {Placeholder, RealIcon(C77)} }

EmptyReport == [skipped |-> <<>>, failed_upload |-> <<>>, completed |-> <<>>]

NoInfo == [name |-> <<>>]

NoResult == [kind |-> "none"]

(***************************************************************************)
(* The state of a run of build.ts or ci.ts.                                *)
(***************************************************************************)
VARIABLES
    script,          \* which script runs: "build" or "ci"
    isCI,            \* process.env.CI === "true"
    directory,       \* the directory passed to processDirectory
    entries,         \* what fs.readdir(directory) lists
    files,           \* the paths that exist in the file system
    banksFile,       \* the content of banksFilePath; Null when unreadable
    banks,           \* this.banks
    pc,              \* the position of the script
    imageFiles,      \* processDirectory: the scanned paths
    idx,             \* processDirectory: the position of the for loop; for
                     \* direct calls of processImage, their number
    results,         \* processDirectory: results
    processed,       \* processDirectory: processed
    report,          \* processDirectory: imageProcessReport
    imageInfo,       \* the descriptor handed to the last processImage call
    stage,           \* the rule at which the last processImage call returned
    imageResult,     \* what the last processImage call returned
    uploadCalls,     \* the invocations of uploadToR2 so far
    completedImages, \* cleanup: its argument
    cIdx,            \* cleanup: the position of the deletion loop
    deletedCount,    \* cleanup: deletedCount
    failedCount,     \* cleanup: failedCount
    unlinks,         \* the fs.unlink calls so far
    cleanupError,    \* what cleanup returned
    exitCode,        \* the exit code of the script; -1 while it runs
    input,           \* the argument of the last extractCode call
    output           \* what the last extractCode call returned

vars ==
    << script, isCI, directory, entries, files, banksFile, banks, pc, imageFiles,
       idx, results, processed, report, imageInfo, stage, imageResult, uploadCalls,
       completedImages, cIdx, deletedCount, failedCount, unlinks, cleanupError,
       exitCode, input, output >>

configVars == << script, isCI, directory, entries, banksFile >>

dirVars == << imageFiles, idx, results, processed, report >>

callVars == << imageInfo, stage, imageResult, uploadCalls >>

cleanupVars == << completedImages, cIdx, deletedCount, failedCount, unlinks, cleanupError >>

codeVars == << input, output >>

\* Before any method has run.
IdleRun ==
    /\ imageFiles = <<>> /\ idx = 0 /\ results = <<>> /\ processed = 0
    /\ report = EmptyReport
    /\ imageInfo = NoInfo /\ stage = "none" /\ imageResult = NoResult
    /\ uploadCalls = <<>>
    /\ cIdx = 0 /\ deletedCount = 0 /\ failedCount = 0
    /\ unlinks = <<>> /\ cleanupError = NoResult
    /\ exitCode = -1
    /\ input = <<>> /\ output = <<>>

Idle == IdleRun /\ completedImages = <<>>

Init ==
    /\ script \in Scripts
    /\ isCI \in BOOLEAN
    /\ directory \in {DefaultDir, OtherDir}
    /\ entries \in Listings
    /\ \E shadow \in BOOLEAN :
          files = {pathJoin(directory, entries[i].name) : i \in 1..Len(entries)}
                  \cup (IF shadow
                        THEN {pathJoin(DefaultDir, entries[i].name) : i \in 1..Len(entries)}
                        ELSE {})
    /\ banksFile \in Registries \cup {Null}
    /\ banks = Undefined
    /\ pc = "start"
    /\ Idle

\* loadBanksData: read and parse banksFilePath; a failure is rethrown and the
\* script exits with 1.
LoadBanksData ==
    /\ pc = "start"
    /\ IF banksFile = Null
       THEN /\ pc' = "exit" /\ exitCode' = 1 /\ UNCHANGED banks
       ELSE /\ pc' = "scan" /\ banks' = banksFile /\ UNCHANGED exitCode
    /\ UNCHANGED << configVars, files, dirVars, callVars, cleanupVars, codeVars >>

\* processDirectory up to the for loop: getAllImageFiles (readdir may throw,
\* which yields no file) and the early return for no supported file.
Scan ==
    /\ pc = "scan"
    /\ \E readdirOk \in BOOLEAN :
          /\ imageFiles' = IF readdirOk THEN ScanFiles(entries, directory) ELSE <<>>
          /\ report' = [EmptyReport EXCEPT !.skipped =
                            IF readdirOk THEN ScanSkipped(entries) ELSE <<>>]
    /\ results' = <<>>
    /\ processed' = 0
    /\ idx' = 1
    /\ pc' = IF imageFiles' = <<>> THEN "returned" ELSE "loop"
    /\ UNCHANGED << configVars, files, banks, callVars, cleanupVars, exitCode, codeVars >>

SizeOf(imagePath) ==
    LET i == CHOOSE j \in 1..Len(entries) : entries[j].name = basename(imagePath)
    IN  entries[i].size

\* One iteration of the for loop whose fs.stat throws: getImageInfo returns
\* null and the file is left out.
ProcessFileNoInfo ==
    /\ pc = "loop"
    /\ idx <= Len(imageFiles)
    /\ idx' = idx + 1
    /\ pc' = IF idx' > Len(imageFiles) THEN "returned" ELSE "loop"
    /\ UNCHANGED << configVars, files, banks, imageFiles, results, processed, report,
                    callVars, cleanupVars, exitCode, codeVars >>

\* One iteration of the for loop with a descriptor: getImageInfo, processImage
\* and the routing of its result.
ProcessFile ==
    /\ pc = "loop"
    /\ idx <= Len(imageFiles)
    /\ \E outcome \in UploadOutcomes :
          LET info == getImageInfo(imageFiles[idx], SizeOf(imageFiles[idx]), script)
              res == processImage(info, banks, script, isCI, outcome)
          IN  /\ outcome /= "ok" => Stage(info, banks, script, isCI) = "upload"
              /\ imageInfo' = info
              /\ stage' = Stage(info, banks, script, isCI)
              /\ imageResult' = res
              /\ uploadCalls' = uploadCalls \o uploadCallsOf(info, banks, script, isCI, outcome)
              /\ banks' = banksAfter(info, banks, script, isCI, outcome)
              /\ results' = Append(results, infoAfter(info, banks, script, isCI))
              /\ report' = Route(report, info, res)
              /\ processed' = IF IsError(res) THEN processed ELSE processed + 1
    /\ idx' = idx + 1
    /\ pc' = IF idx' > Len(imageFiles) THEN "returned" ELSE "loop"
    /\ UNCHANGED << configVars, files, imageFiles, cleanupVars, exitCode, codeVars >>

DefaultImagePng == DefaultImage \o <<".", "p", "n", "g">>

\* ci.ts after processDirectory: skipped files other than default-image.png,
\* or no completed file, fail the check.
MainCi ==
    /\ pc = "returned"
    /\ script = "ci"
    /\ LET invalidImages ==
               SelectSeq(report.skipped, LAMBDA image : image.name /= DefaultImagePng)
       IN  exitCode' = IF Len(invalidImages) > 0 THEN 1
                       ELSE IF Len(report.completed) = 0 THEN 1
                       ELSE 0
    /\ pc' = "exit"
    /\ UNCHANGED << configVars, files, banks, dirVars, callVars, cleanupVars, codeVars >>

\* build.ts after processDirectory: printReport, then cleanup when some file
\* completed.
MainBuild ==
    /\ pc = "returned"
    /\ script = "build"
    /\ IF Len(report.completed) > 0
       THEN /\ pc' = "cleanup"
            /\ completedImages' = report.completed
            /\ UNCHANGED exitCode
       ELSE /\ pc' = "exit"
            /\ exitCode' = 0
            /\ UNCHANGED completedImages
    /\ UNCHANGED << configVars, files, banks, dirVars, callVars, cIdx, deletedCount,
                    failedCount, unlinks, cleanupError, codeVars >>

\* cleanup up to the deletion loop: updatedBanks, the try block around the
\* write of banksFilePath, and the return for no completed image.
CleanupBegin ==
    /\ pc = "cleanup"
    /\ banksFile' = writeBanksFile(banksFile, updatedBanks(banks, script), script)
    /\ deletedCount' = 0
    /\ failedCount' = 0
    /\ cIdx' = 1
    /\ IF Len(completedImages) = 0
       THEN /\ cleanupError' = [kind |-> "void"]
            /\ pc' = "cleaned"
       ELSE /\ cleanupError' = cleanupError
            /\ pc' = "unlink"
    /\ UNCHANGED << script, isCI, directory, entries, files, banks, dirVars, callVars,
                    completedImages, unlinks, exitCode, codeVars >>

\* CleanupUnlink with a return inside the catch: the first deletion that
\* fails ends the loop.
CleanupUnlinkAbort ==
    /\ pc = "unlink"
    /\ cIdx <= Len(completedImages)
    /\ \E ok \in BOOLEAN :
          LET target == unlinkPath(directory, completedImages[cIdx])
          IN  /\ ok => target \in files
              /\ files' = IF ok THEN files \ {target} ELSE files
              /\ deletedCount' = IF ok THEN deletedCount + 1 ELSE deletedCount
              /\ failedCount' = IF ok THEN failedCount ELSE failedCount + 1
              /\ unlinks' = Append(unlinks, [path |-> target, ok |-> ok])
              /\ cIdx' = cIdx + 1
              /\ IF ~ok \/ cIdx' > Len(completedImages)
                 THEN /\ cleanupError' = cleanupReturn(failedCount', Len(completedImages))
                      /\ pc' = "cleaned"
                 ELSE /\ cleanupError' = cleanupError
                      /\ pc' = "unlink"
    /\ UNCHANGED << configVars, banks, dirVars, callVars, completedImages, exitCode,
                    codeVars >>

\* One iteration of the deletion loop: fs.unlink throws when the file does not
\* exist and may throw when it does; after the last one cleanup returns.
CleanupUnlink ==
    /\ pc = "unlink"
    /\ cIdx <= Len(completedImages)
    /\ \E ok \in BOOLEAN :
          LET target == unlinkPath(directory, completedImages[cIdx])
          IN  /\ ok => target \in files
              /\ files' = IF ok THEN files \ {target} ELSE files
              /\ deletedCount' = IF ok THEN deletedCount + 1 ELSE deletedCount
              /\ failedCount' = IF ok THEN failedCount ELSE failedCount + 1
              /\ unlinks' = Append(unlinks, [path |-> target, ok |-> ok])
    /\ cIdx' = cIdx + 1
    /\ IF cIdx' > Len(completedImages)
       THEN /\ cleanupError' = cleanupReturn(failedCount', Len(completedImages))
            /\ pc' = "cleaned"
       ELSE /\ cleanupError' = cleanupError
            /\ pc' = "unlink"
    /\ UNCHANGED << configVars, banks, dirVars, callVars, completedImages, exitCode,
                    codeVars >>

\* build.ts after cleanup: a returned Error exits with 1.
MainAfterCleanup ==
    /\ pc = "cleaned"
    /\ exitCode' = IF cleanupError.kind = "Error" THEN 1 ELSE 0
    /\ pc' = "exit"
    /\ UNCHANGED << configVars, files, banks, dirVars, callVars, cleanupVars, codeVars >>

Next ==
    \/ LoadBanksData
    \/ Scan
    \/ ProcessFileNoInfo
    \/ ProcessFile
    \/ MainCi
    \/ MainBuild
    \/ CleanupBegin
    \/ CleanupUnlink
    \/ MainAfterCleanup

Spec == Init /\ [][Next]_vars

(***************************************************************************)
(* processImage called directly (it is a public method of the exported     *)
(* class) with descriptors a caller can build, a null code among them.     *)
(***************************************************************************)
MaxCalls == 2

DescriptorCodes == {Null, <<>>, C77, C10, <<"9", "9">>}

DescriptorSizes(scr) == {1023, 2048, maxFileSizeOf(scr) + 1}

Descriptors(scr) ==
    { [ path |-> pathJoin(DefaultDir, <<"x">> \o f.extension),
        name |-> <<"x">> \o f.extension,
        code |-> c,
        extension |-> f.extension,
        size |-> sz,
        sizeFormatted |-> formatFileSize(sz),
        type |-> mimeTypes(f.extension),
        isSupported |-> f.isSupported,
        isValidSize |-> sz >= minFileSize /\ sz <= maxFileSizeOf(scr) ]
      : c \in DescriptorCodes,
        sz \in DescriptorSizes(scr),
        f \in { [extension |-> <<".", "p", "n", "g">>, isSupported |-> TRUE],
                [extension |-> <<".", "b", "m", "p">>, isSupported |-> FALSE] } }

InitImage ==
    /\ script \in Scripts
    /\ isCI \in BOOLEAN
    /\ directory = DefaultDir
    /\ entries = <<>>
    /\ files = {}
    /\ banksFile \in Registries
    /\ banks = banksFile
    /\ pc = "api"
    /\ Idle

ApiProcessImage ==
    /\ pc = "api"
    /\ idx < MaxCalls
    /\ \E info \in Descriptors(script), outcome \in UploadOutcomes :
          /\ outcome /= "ok" => Stage(info, banks, script, isCI) = "upload"
          /\ imageInfo' = info
          /\ stage' = Stage(info, banks, script, isCI)
          /\ imageResult' = processImage(info, banks, script, isCI, outcome)
          /\ uploadCalls' = uploadCalls \o uploadCallsOf(info, banks, script, isCI, outcome)
          /\ banks' = banksAfter(info, banks, script, isCI, outcome)
    /\ idx' = idx + 1
    /\ UNCHANGED << configVars, files, pc, imageFiles, results, processed, report,
                    cleanupVars, exitCode, codeVars >>

NextImage == ApiProcessImage

SpecImage == InitImage /\ [][NextImage]_vars

(***************************************************************************)
(* cleanup called directly with a list of names, the empty one among them. *)
(***************************************************************************)
CompletedNames ==
    { C77 \o <<".", "p", "n", "g">>, C77 \o <<".", "P", "N", "G">>,
      C10 \o <<".", "j", "p", "g">>, C20 \o <<".", "s", "v", "g">> }

CompletedLists == UNION { [1..n -> CompletedNames] : n \in 0..MaxFiles }

InitCleanup ==
    /\ script \in Scripts
    /\ isCI \in BOOLEAN
    /\ directory \in {DefaultDir, OtherDir}
    /\ entries = <<>>
    /\ banksFile \in Registries
    /\ banks = banksFile
    /\ pc = "cleanup"
    /\ IdleRun
    /\ \E list \in CompletedLists, present \in BOOLEAN :
          /\ completedImages = list
          /\ files = IF present
                     THEN {pathJoin(DefaultDir, list[i]) : i \in 1..Len(list)}
                     ELSE {}

NextCleanup == CleanupBegin \/ CleanupUnlink

SpecCleanup == InitCleanup /\ [][NextCleanup]_vars

(***************************************************************************)
(* extractCode called on the strings of one to MaxNameLen characters.      *)
(***************************************************************************)
MaxNameLen == 4

Alphabet == {"7", "a", ".", "/"}

Strings == UNION { [1..n -> Alphabet] : n \in 1..MaxNameLen }

InitCode ==
    /\ script = "build"
    /\ isCI = FALSE
    /\ directory = DefaultDir
    /\ entries = <<>>
    /\ files = {}
    /\ banksFile = Null
    /\ banks = Undefined
    /\ pc = "code"
    /\ Idle

ExtractCodeCall ==
    /\ pc = "code"
    /\ \E s \in Strings :
          /\ input' = s
          /\ output' = extractCode(s)
    /\ pc' = "coded"
    /\ UNCHANGED << configVars, files, banks, dirVars, callVars, cleanupVars, exitCode >>

NextCode == ExtractCodeCall

SpecCode == InitCode /\ [][NextCode]_vars

(***************************************************************************)
(* Properties.                                                             *)
(***************************************************************************)
\* How often x occurs in the sequence seq.
Occurrences(seq, x) == Cardinality({i \in 1..Len(seq) : seq[i] = x})

SkippedNames == [i \in 1..Len(report.skipped) |-> report.skipped[i].name]

\* A step that called processImage.
CallStep == Len(results') = Len(results) + 1 \/ (pc = "api" /\ idx' = idx + 1)

\* C1: every file that got a descriptor has its name in exactly one of the
\* buckets skipped, failed_upload and completed, exactly once; this holds
\* after every iteration of the loop, so also when processDirectory returns.
C1_Partition ==
    /\ \A i \in 1..Len(results) :
          Occurrences(SkippedNames, results[i].name)
          + Occurrences(report.failed_upload, results[i].name)
          + Occurrences(report.completed, results[i].name) = 1
    /\ pc = "returned" =>
          Len(report.failed_upload) + Len(report.completed) <= Len(results)

\* A run of two descriptors, one completed and one whose upload failed.
C1_Witness ==
    /\ pc = "returned"
    /\ Len(results) = 2
    /\ Len(report.completed) = 1
    /\ Len(report.failed_upload) = 1

\* Some record of bks carries code as its code or as its nipBankCode.
HasMatch(bks, code) ==
    \E i \in 1..Len(bks) : bks[i].code = code \/ bks[i].nipBankCode = code

\* C2: processImage applies its rules in the order format, code presence,
\* size, registry match, and the first rule that fails decides the result:
\* unsupported format gives ImageValidationError(Unsupported format); else a
\* null code gives ImageBankMatchError(No code found) whatever the size; else
\* an invalid size gives ImageValidationError(Invalid size); else no matching
\* record gives ImageBankMatchError(No bank found).  A call that fails one of
\* the four rules makes no upload call and leaves the registry as it was.
C2_RuleOrder ==
    [][ CallStep =>
          LET info == imageInfo'
              res == imageResult'
              failsRule == \/ ~info.isSupported
                           \/ info.code = Null
                           \/ ~info.isValidSize
                           \/ ~HasMatch(banks, info.code)
          IN  /\ ~info.isSupported =>
                    /\ res.kind = "ImageValidationError"
                    /\ res.message[1] = "Unsupported format"
              /\ info.isSupported /\ info.code = Null =>
                    /\ res.kind = "ImageBankMatchError"
                    /\ res.message[1] = "No code found"
              /\ info.isSupported /\ info.code /= Null /\ info.code /= <<>>
                 /\ ~info.isValidSize =>
                    /\ res.kind = "ImageValidationError"
                    /\ res.message[1] = "Invalid size"
              /\ info.isSupported /\ info.code /= Null /\ info.code /= <<>>
                 /\ info.isValidSize /\ ~HasMatch(banks, info.code) =>
                    /\ res.kind = "ImageBankMatchError"
                    /\ res.message[1] = "No bank found"
              /\ failsRule => uploadCalls' = uploadCalls /\ banks' = banks
              /\ ~failsRule => ~IsError(res) \/ res.kind = "FailedUploadError"
      ]_vars

\* A descriptor of supported format with a null code and an invalid size was
\* rejected for its code.
C2_Witness ==
    /\ pc = "api"
    /\ imageInfo /= NoInfo
    /\ imageInfo.isSupported
    /\ imageInfo.code = Null
    /\ ~imageInfo.isValidSize
    /\ imageResult.kind = "ImageBankMatchError"
    /\ imageResult.message[1] = "No code found"

\* "parses as a non-negative integer string": one or more digits.
IsIntegerString(s) == Len(s) > 0 /\ \A i \in 1..Len(s) : s[i] \in Digits

\* C3: extractCode returns the name without its extension when that is a
\* non-negative integer string, and null otherwise.
C3_ExtractCode ==
    pc = "coded" =>
        output = IF IsIntegerString(StripExtension(input))
                 THEN StripExtension(input)
                 ELSE Null

\* The first record of bks, in store order, that carries code.
FirstMatch(bks, code) ==
    CHOOSE i \in 1..Len(bks) :
        /\ bks[i].code = code \/ bks[i].nipBankCode = code
        /\ \A j \in 1..(i - 1) : bks[j].code /= code /\ bks[j].nipBankCode /= code

\* info passes the format, code and size checks and matches a record of bks.
PassesRules(info, bks) ==
    /\ info.isSupported
    /\ info.code /= Null /\ info.code /= <<>>
    /\ info.isValidSize
    /\ HasMatch(bks, info.code)

HasIcon(bank) == bank.icon /= Undefined /\ bank.icon /= <<>>

\* C4: when a descriptor passes the format, code and size checks and its
\* matched record has an icon without the marker "default-image",
\* processImage returns that icon, uploadToR2 is not invoked and no record
\* changes, in CI mode and outside it.
C4_IconAlreadySet ==
    [][ CallStep /\ PassesRules(imageInfo', banks)
        /\ HasIcon(banks[FirstMatch(banks, imageInfo'.code)])
        /\ ~Includes(banks[FirstMatch(banks, imageInfo'.code)].icon, DefaultImage)
        => /\ imageResult' = [kind |-> "string",
                              value |-> banks[FirstMatch(banks, imageInfo'.code)].icon]
           /\ uploadCalls' = uploadCalls
           /\ banks' = banks
      ]_vars

\* Outside CI mode, 77.png met the record with nipBankCode 77 and the icon
\* cdn/logo/77, and got that icon back without an upload call.
C4_Witness ==
    /\ ~isCI
    /\ stage = "iconSet"
    /\ imageInfo.name = C77 \o <<".", "p", "n", "g">>
    /\ imageResult = [kind |-> "string", value |-> RealIcon(C77)]
    /\ uploadCalls = <<>>
    /\ report.completed = <<C77 \o <<".", "p", "n", "g">>>>

\* C5: in CI mode no step after the load of the registry invokes uploadToR2
\* or changes a record, and a descriptor that passes the format, code and
\* size checks and matches a record gets that record's icon as it is (the
\* placeholder, or none, included) and is classified completed.
C5_CiNoWrites ==
    [][ isCI /\ pc /= "start"
        => /\ uploadCalls' = uploadCalls
           /\ uploadCalls = <<>>
           /\ banks' = banks
           /\ CallStep /\ PassesRules(imageInfo', banks)
              => /\ imageResult' = [kind |-> "string",
                                    value |-> banks[FirstMatch(banks, imageInfo'.code)].icon]
                 /\ pc /= "api"
                    => /\ report'.completed = Append(report.completed, imageInfo'.name)
                       /\ report'.skipped = report.skipped
                       /\ report'.failed_upload = report.failed_upload
      ]_vars

\* In CI mode 77.png met the record with the placeholder icon: the placeholder
\* came back, the file is completed, and the registry is as loaded.
C5_Witness ==
    /\ isCI
    /\ stage = "ci"
    /\ imageInfo.name = C77 \o <<".", "p", "n", "g">>
    /\ imageResult = [kind |-> "string", value |-> Placeholder]
    /\ report.completed = <<C77 \o <<".", "p", "n", "g">>>>
    /\ uploadCalls = <<>>
    /\ banks = banksFile

\* C6: a record's icon changes only in a processImage step whose upload
\* succeeded, only on the matched record, and to the URL the call returned;
\* so a call that ends in an error or in a short-circuit changes no record.
C6_IconOnlyOnUpload ==
    [][ pc /= "start"
        => /\ Len(banks') = Len(banks)
           /\ \A i \in 1..Len(banks) :
                 banks'[i] /= banks[i]
                 => /\ CallStep
                    /\ imageResult'.kind = "string"
                    /\ Len(uploadCalls') = Len(uploadCalls) + 1
                    /\ uploadCalls'[Len(uploadCalls')].sent /= <<>>
                    /\ i = FirstMatch(banks, imageInfo'.code)
                    /\ banks'[i] = [banks[i] EXCEPT !.icon = imageResult'.value]
           /\ CallStep /\ (IsError(imageResult') \/ uploadCalls' = uploadCalls)
              => banks' = banks
      ]_vars

\* The upload for 77.png succeeded: the second record went from the
\* placeholder to the new URL and the first record is as loaded.
C6_Witness ==
    /\ stage = "upload"
    /\ imageResult = [kind |-> "string", value |-> RealIcon(C77)]
    /\ banksFile /= Null
    /\ banksFile[2].icon = Placeholder
    /\ banks[2].icon = RealIcon(C77)
    /\ banks[1] = banksFile[1]
    /\ banks[3] = banksFile[3]

\* C7: a result of kind ImageValidationError or ImageBankMatchError appends
\* {name, reason: its message} to skipped and nothing else; a result of kind
\* FailedUploadError appends the name to failed_upload and nothing to skipped;
\* and after any result the loop goes on to the next file, so that
\* processDirectory returns only after the last file.
C7_FailuresRouted ==
    /\ [][ CallStep /\ pc = "loop"
           => /\ imageResult'.kind \in {"ImageValidationError", "ImageBankMatchError"}
                 => /\ report'.skipped =
                          Append(report.skipped, [name |-> imageInfo'.name,
                                                  reason |-> imageResult'.message])
                    /\ report'.failed_upload = report.failed_upload
                    /\ report'.completed = report.completed
              /\ imageResult'.kind = "FailedUploadError"
                 => /\ report'.failed_upload = Append(report.failed_upload, imageInfo'.name)
                    /\ report'.skipped = report.skipped
                    /\ report'.completed = report.completed
              /\ imageInfo'.name = imageFiles[idx].name
              /\ idx' = idx + 1
              /\ pc' = IF idx' <= Len(imageFiles) THEN "loop" ELSE "returned"
              /\ exitCode' = exitCode
         ]_vars
    /\ [](pc = "returned" => idx > Len(imageFiles))

\* The upload of the first file failed and the second file was still
\* processed and completed.
C7_Witness ==
    /\ pc = "returned"
    /\ Len(results) = 2
    /\ report.failed_upload = <<results[1].name>>
    /\ report.completed = <<results[2].name>>
    /\ imageResult.kind = "string"

\* C8: whenever uploadToR2 is invoked, the descriptor it gets carries the
\* matched record's nipBankCode as its code, every request it sends has the
\* key "logo/" followed by that nipBankCode, and a successful upload returns
\* and stores "<publicDomain>/logo/<nipBankCode>" on the matched record.
C8_CanonicalKey ==
    [][ CallStep /\ Len(uploadCalls') = Len(uploadCalls) + 1
        => LET call == uploadCalls'[Len(uploadCalls')]
               m == FirstMatch(banks, imageInfo'.code)
               nip == banks[m].nipBankCode
           IN  /\ call.info.code = nip
               /\ \A k \in 1..Len(call.sent) : call.sent[k].Key = LogoPrefix \o nip
               /\ imageResult'.kind = "string"
                  => /\ Len(call.sent) = 1
                     /\ imageResult'.value = Cdn \o <<"/">> \o LogoPrefix \o nip
                     /\ banks'[m].icon = Cdn \o <<"/">> \o LogoPrefix \o nip
      ]_vars

\* 10.jpg names the first record by its code "10"; the upload went to
\* logo/20, the record's nipBankCode, and cdn/logo/20 is its icon.
C8_Witness ==
    /\ stage = "upload"
    /\ imageInfo.name = C10 \o <<".", "j", "p", "g">>
    /\ imageInfo.code = C10
    /\ uploadCalls /= <<>>
    /\ uploadCalls[Len(uploadCalls)].sent /= <<>>
    /\ uploadCalls[Len(uploadCalls)].sent[1].Key = LogoPrefix \o C20
    /\ imageResult = [kind |-> "string", value |-> Cdn \o <<"/">> \o LogoPrefix \o C20]
    /\ banks[1].icon = Cdn \o <<"/">> \o LogoPrefix \o C20

\* C9: when cleanup has returned for a non-empty list, it has called
\* fs.unlink once for every listed name, in order, whatever the earlier
\* deletions did; deletedCount + failedCount is the length of the list; and
\* it returned an Error that states the number of failures and the total
\* exactly when some deletion failed, and nothing otherwise.  For the empty
\* list it deletes nothing and returns nothing.
C9_DeletionIsolated ==
    pc = "cleaned" =>
        IF Len(completedImages) = 0
        THEN /\ unlinks = <<>>
             /\ deletedCount + failedCount = 0
             /\ cleanupError = [kind |-> "void"]
        ELSE LET failed == {i \in 1..Len(unlinks) : ~unlinks[i].ok}
             IN  /\ Len(unlinks) = Len(completedImages)
                 /\ \A i \in 1..Len(unlinks) : unlinks[i].path.name = completedImages[i]
                 /\ deletedCount + failedCount = Len(completedImages)
                 /\ failedCount = Cardinality(failed)
                 /\ failed /= {} =>
                       cleanupError =
                           [kind |-> "Error",
                            message |-> <<"Failed to delete", Cardinality(failed),
                                          "out of", Len(completedImages)>>]
                 /\ failed = {} => cleanupError = [kind |-> "void"]

\* The first of two deletions failed, the second one was still made and
\* succeeded, and cleanup returned "1 out of 2".
C9_Witness ==
    /\ pc = "cleaned"
    /\ Len(completedImages) = 2
    /\ Len(unlinks) = 2
    /\ ~unlinks[1].ok
    /\ unlinks[2].ok
    /\ cleanupError = [kind |-> "Error",
                       message |-> <<"Failed to delete", 1, "out of", 2>>]

\* C10: when cleanup has returned, banksFilePath holds the records of
\* this.banks in store order, each with its icon, and with the placeholder
\* "<publicDomain>/logo/default-image" for a record without icon.
C10_RegistryPersisted ==
    pc = "cleaned" =>
        /\ banksFile /= Null
        /\ Len(banksFile) = Len(banks)
        /\ \A i \in 1..Len(banks) :
              banksFile[i] =
                  [banks[i] EXCEPT !.icon =
                      IF HasIcon(banks[i]) THEN banks[i].icon
                      ELSE Cdn \o <<"/">> \o LogoPrefix \o DefaultImage]

\* C11: every file cleanup tries to delete is the file of a completed name
\* in the directory that processDirectory scanned, whichever directory that
\* is; no path outside the scanned directory is handed to fs.unlink.
C11_DeletesFromScanDirectory ==
    \A i \in 1..Len(unlinks) :
        /\ unlinks[i].path = pathJoin(directory, completedImages[i])
        /\ unlinks[i].path.dir = directory
        /\ Occurrences(report.completed, unlinks[i].path.name) = 1

\* The position of the entry called name in the directory listing.
PositionOf(name) == CHOOSE i \in 1..Len(entries) : entries[i].name = name

\* The names of seq come in the order of the directory listing.
InListingOrder(seq) ==
    \A i, j \in 1..Len(seq) : i < j => PositionOf(seq[i]) < PositionOf(seq[j])

\* The scanner skips a name for its extension; the engine skips the others.
SkippedByScanner(name) == toLowerCase(extname(name)) \notin defaultSupportedFormats

\* C12 as stated: in each of the three buckets, skipped included, the names
\* come in the order of the directory listing.
C12_ListingOrderInEveryBucket ==
    /\ InListingOrder(report.completed)
    /\ InListingOrder(report.failed_upload)
    /\ InListingOrder(SkippedNames)

\* C12 as amended: descriptors are produced in the order of the listing;
\* completed and failed_upload keep that order; skipped holds the scanner's
\* unsupported-format entries first, in listing order, and after all of them
\* the engine's failures, in listing order.
C12_EncounterOrder ==
    /\ InListingOrder([i \in 1..Len(imageFiles) |-> imageFiles[i].name])
    /\ InListingOrder([i \in 1..Len(results) |-> results[i].name])
    /\ InListingOrder(report.completed)
    /\ InListingOrder(report.failed_upload)
    /\ \A i, j \in 1..Len(SkippedNames) :
          i < j =>
             IF SkippedByScanner(SkippedNames[i]) = SkippedByScanner(SkippedNames[j])
             THEN PositionOf(SkippedNames[i]) < PositionOf(SkippedNames[j])
             ELSE SkippedByScanner(SkippedNames[i])

\* The listing has logo-a.png ahead of 5.txt, and skipped has 5.txt (from the
\* scan) ahead of logo-a.png (from the engine).
C12_Witness ==
    /\ pc = "returned"
    /\ Len(entries) = 2
    /\ entries[1].name = <<"l", "o", "g", "o", "-", "a", ".", "p", "n", "g">>
    /\ entries[2].name = <<"5", ".", "t", "x", "t">>
    /\ SkippedNames = <<entries[2].name, entries[1].name>>

\* uploadToR2 was invoked earlier in the run for the record bank: the
\* descriptor it got carries the record's nipBankCode.
UploadTriedFor(bank) ==
    \E k \in 1..Len(uploadCalls) : uploadCalls[k].info.code = bank.nipBankCode

\* C13: outside CI mode a record's icon is replaced at most once in a run.
\* Once an upload has replaced it, a later descriptor that passes the format,
\* code and size checks and matches the same record (by its code or by its
\* nipBankCode) causes no upload call and no change of the registry, gets the
\* stored icon back and is completed.  After uploads for a record that all
\* failed (its icon is as loaded), such a descriptor invokes uploadToR2 again.
C13_OneUploadPerRecord ==
    [][ ~isCI /\ pc = "loop"
        => /\ \A m \in 1..Len(banks) :
                 banks'[m] /= banks[m] => banks[m] = banksFile[m]
           /\ CallStep /\ PassesRules(imageInfo', banks)
              => LET m == FirstMatch(banks, imageInfo'.code)
                 IN  /\ banks[m].icon /= banksFile[m].icon
                        => /\ ~Includes(banks[m].icon, DefaultImage)
                           /\ uploadCalls' = uploadCalls
                           /\ banks' = banks
                           /\ imageResult' = [kind |-> "string", value |-> banks[m].icon]
                           /\ report'.completed =
                                 Append(report.completed, imageInfo'.name)
                     /\ banks[m].icon = banksFile[m].icon /\ UploadTriedFor(banks[m])
                        => Len(uploadCalls') = Len(uploadCalls) + 1
      ]_vars

\* 77.png was uploaded and 77.PNG, which names the same record, was then
\* completed on the stored icon without a second upload call.
C13_Witness ==
    /\ ~isCI
    /\ Len(results) = 2
    /\ results[1].name = C77 \o <<".", "p", "n", "g">>
    /\ results[2].name = C77 \o <<".", "P", "N", "G">>
    /\ stage = "iconSet"
    /\ Len(uploadCalls) = 1
    /\ banksFile[2].icon = Placeholder
    /\ banks[2].icon = RealIcon(C77)
    /\ imageResult = [kind |-> "string", value |-> RealIcon(C77)]
    /\ report.completed = <<results[1].name, results[2].name>>

\* The upload for 77.png failed and 77.PNG, which names the same record,
\* was uploaded after it.
C13_RetryAfterFailure ==
    /\ ~isCI
    /\ Len(results) = 2
    /\ report.failed_upload = <<C77 \o <<".", "p", "n", "g">>>>
    /\ report.completed = <<C77 \o <<".", "P", "N", "G">>>>
    /\ Len(uploadCalls) = 2

====
